---- MODULE Spec2Model ----
(***************************************************************************)
(* A model of create_cards.py: the layout loader, the card data loader,    *)
(* wrap_text, create_card_image and main.                                  *)
(*                                                                         *)
(* Strings whose characters matter (texts, CSV cells, justification) are   *)
(* sequences of one-character strings, so that split(), join(), lower(),   *)
(* int() and float() are computed character by character.                  *)
(***************************************************************************)
EXTENDS Integers, Sequences, FiniteSets, TLC

VARIABLES
    \* main()
    layout_header,   \* the header row of layout.csv: a set of column names
    layout_rows,     \* the data rows of layout.csv: cells by column name
    cards_header,    \* the header row of cards.csv
    cards_rows,      \* the data rows of cards.csv
    pc,              \* the position of main (or of the function under check)
    features,        \* main's `features`
    cards,           \* main's `cards`
    i,               \* the loop index of main's enumerate(cards), 0-based
    image,           \* the canvas of the card being rendered: the draws made
    files,           \* the files written: N of card_<N>.png -> what was saved
    fault,           \* the exception that ended the run, "none" otherwise
    \* create_card_image() applied to drawn inputs
    r_card, r_features, r_field, r_out, r_outMissing, r_outEmpty,
    \* wrap_text() applied to drawn inputs
    w_text, w_font, w_max, w_out

vars == <<layout_header, layout_rows, cards_header, cards_rows, pc, features,
          cards, i, image, files, fault,
          r_card, r_features, r_field, r_out, r_outMissing, r_outEmpty,
          w_text, w_font, w_max, w_out>>

mainVars == <<layout_header, layout_rows, cards_header, cards_rows, features,
              cards, i, image, files, fault>>
renderVars == <<r_card, r_features, r_field, r_out, r_outMissing, r_outEmpty>>
wrapVars == <<w_text, w_font, w_max, w_out>>

(***************************************************************************)
(* Bounds of the model.                                                    *)
(***************************************************************************)
MaxTextLen == 5      \* characters of a text handed to wrap_text
MaxWidth == 22       \* largest max_width handed to wrap_text on its own
MaxRows == 2         \* data rows of layout.csv
MaxCards == 2        \* data rows of cards.csv
MaxFeatures == 2     \* features handed to create_card_image on its own

SeqsUpTo(S, n) == UNION {[1..k -> S] : k \in 0..n}

Max(a, b) == IF a >= b THEN a ELSE b

(***************************************************************************)
(* Text measurement: draw.textbbox((0, 0), s, font).  The width of a       *)
(* string is the sum of its characters' advances, the height the tallest   *)
(* character; both scale with the font size.  Advances are in tenths of    *)
(* the font size.                                                          *)
(***************************************************************************)
Alphabet == {"a", "W", " "}

CharAdvance(c) == CASE c = "a" -> 5 [] c = "W" -> 10 [] OTHER -> 3
CharRise(c) == CASE c = "a" -> 5 [] c = "W" -> 7 [] OTHER -> 0

RECURSIVE SumAdvance(_)
SumAdvance(s) == IF s = <<>> THEN 0 ELSE CharAdvance(Head(s)) + SumAdvance(Tail(s))

RECURSIVE MaxRise(_)
MaxRise(s) == IF s = <<>> THEN 0 ELSE Max(CharRise(Head(s)), MaxRise(Tail(s)))

TextWidth(s, font) == (SumAdvance(s) * font.size) \div 10
TextHeight(s, font) == (MaxRise(s) * font.size) \div 10

(***************************************************************************)
(* str.split() and ' '.join()                                              *)
(***************************************************************************)
RECURSIVE SplitLoop(_, _, _)
SplitLoop(s, word, words) ==
    IF s = <<>>
    THEN IF word = <<>> THEN words ELSE Append(words, word)
    ELSE IF Head(s) = " "
         THEN SplitLoop(Tail(s), <<>>, IF word = <<>> THEN words ELSE Append(words, word))
         ELSE SplitLoop(Tail(s), Append(word, Head(s)), words)

Split(s) == SplitLoop(s, <<>>, <<>>)

RECURSIVE Join(_)
Join(ws) ==
    IF ws = <<>> THEN <<>>
    ELSE IF Len(ws) = 1 THEN ws[1]
    ELSE ws[1] \o <<" ">> \o Join(Tail(ws))

(***************************************************************************)
(* wrap_text                                                               *)
(***************************************************************************)
\* a variant of test_line that measures the new word alone
TestLineWordOnly(current_line, word) == word

TestLine(current_line, word) == Join(Append(current_line, word))

RECURSIVE WrapLoop(_, _, _, _, _, _)
WrapLoop(words, k, current_line, wrapped_lines, font, max_width) ==
    IF k > Len(words)
    THEN IF current_line # <<>>
         THEN Append(wrapped_lines, Join(current_line))
         ELSE wrapped_lines
    ELSE LET word == words[k]
             test_line == TestLine(current_line, word)
             text_width == TextWidth(test_line, font)
         IN  IF text_width <= max_width
             THEN WrapLoop(words, k + 1, Append(current_line, word),
                           wrapped_lines, font, max_width)
             ELSE WrapLoop(words, k + 1, <<word>>,
                           Append(wrapped_lines, Join(current_line)), font, max_width)

WrapText(text, font, max_width) == WrapLoop(Split(text), 1, <<>>, <<>>, font, max_width)

(***************************************************************************)
(* str.lower(), int() and float() on the cells of layout.csv               *)
(***************************************************************************)
UpperCase == <<"A","B","C","D","E","F","G","H","I","J","K","L","M",
               "N","O","P","Q","R","S","T","U","V","W","X","Y","Z">>
LowerCase == <<"a","b","c","d","e","f","g","h","i","j","k","l","m",
               "n","o","p","q","r","s","t","u","v","w","x","y","z">>

LowerChar(c) ==
    IF \E k \in 1..26 : UpperCase[k] = c
    THEN LowerCase[CHOOSE k \in 1..26 : UpperCase[k] = c]
    ELSE c

Lower(s) == [k \in 1..Len(s) |-> LowerChar(s[k])]

Digits == <<"0","1","2","3","4","5","6","7","8","9">>
IsDigit(c) == \E k \in 1..10 : Digits[k] = c
DigitVal(c) == (CHOOSE k \in 1..10 : Digits[k] = c) - 1

RECURSIVE DecimalValue(_)
DecimalValue(s) ==
    IF s = <<>> THEN 0
    ELSE DecimalValue(SubSeq(s, 1, Len(s) - 1)) * 10 + DigitVal(s[Len(s)])

\* int(cell) raises ValueError unless the cell is a decimal integer literal
IntParses(s) == s # <<>> /\ \A k \in 1..Len(s) : IsDigit(s[k])
IntValue(s) == DecimalValue(s)

\* float(cell): digits with at most one point; the value is kept in
\* hundredths (the cells of the model have at most two decimals)
DotAt(s) == IF \E k \in 1..Len(s) : s[k] = "."
            THEN CHOOSE k \in 1..Len(s) : s[k] = "."
            ELSE Len(s) + 1
FloatParses(s) ==
    /\ \E k \in 1..Len(s) : IsDigit(s[k])
    /\ \A k \in 1..Len(s) : IsDigit(s[k]) \/ k = DotAt(s)
FloatHundredths(s) ==
    LET whole == SubSeq(s, 1, DotAt(s) - 1)
        frac == SubSeq(s, DotAt(s) + 1, Len(s))
        frac2 == SubSeq(frac \o <<"0", "0">>, 1, 2)
    IN  DecimalValue(whole) * 100 + DecimalValue(frac2)

(***************************************************************************)
(* read_csv_to_features: csv.DictReader gives each data row as a dict      *)
(* keyed by the header's columns; the ImageFeature constructor's           *)
(* arguments are evaluated in order and the first failure is raised.       *)
(***************************************************************************)
RequiredColumns == {"font", "font_size", "text_color", "justification",
                    "vertical_pos", "element_name", "rotation"}

RowError(header, row) ==
    CASE "font" \notin header -> "KeyError"
      [] "font_size" \notin header -> "KeyError"
      [] ~IntParses(row.font_size) -> "ValueError"
      [] "text_color" \notin header -> "KeyError"
      [] "justification" \notin header -> "KeyError"
      [] "vertical_pos" \notin header -> "KeyError"
      [] ~FloatParses(row.vertical_pos) -> "ValueError"
      [] "element_name" \notin header -> "KeyError"
      [] "rotation" \notin header -> "KeyError"
      [] OTHER -> "none"

RowFeature(row) ==
    [font |-> row.font,
     font_size |-> IntValue(row.font_size),
     text_color |-> row.text_color,
     justification |-> row.justification,
     vertical_pos |-> FloatHundredths(row.vertical_pos),
     element_name |-> row.element_name,
     rotation |-> row.rotation]

\* the exception read_csv_to_features raises on these rows, "none" if none
ReadFeaturesError(header, rows) ==
    IF \E k \in 1..Len(rows) : RowError(header, rows[k]) # "none"
    THEN RowError(header, rows[CHOOSE k \in 1..Len(rows) :
                                  /\ RowError(header, rows[k]) # "none"
                                  /\ \A j \in 1..(k - 1) : RowError(header, rows[j]) = "none"])
    ELSE "none"

ReadFeatures(rows) == [k \in 1..Len(rows) |-> RowFeature(rows[k])]

(***************************************************************************)
(* create_card_image                                                       *)
(***************************************************************************)
CARD_WIDTH == 750 + 75
CARD_HEIGHT == 1050 + 75
DPI == 300
MARGIN == (25 * DPI) \div 100

\* the fonts ImageFont.truetype can open; any other name raises IOError
InstalledFonts == {"arial"}
\* the size of the font ImageFont.load_default() returns
DefaultFontSize == 10

LoadFont(feature) ==
    IF feature.font \in InstalledFonts
    THEN [name |-> feature.font, size |-> feature.font_size]
    ELSE [name |-> "default", size |-> DefaultFontSize]

\* a variant of card.get that yields a placeholder text for a missing key
CardGetPlaceholder(card, name, default) ==
    IF name \in DOMAIN card THEN card[name] ELSE <<"a">>

\* card.get(name, default)
CardGet(card, name, default) ==
    IF name \in DOMAIN card THEN card[name] ELSE default

\* int(): truncation toward zero of n/d
TruncDiv(n, d) == IF n >= 0 THEN n \div d ELSE -((-n) \div d)

RECURSIVE MaxTextHeight(_, _)
MaxTextHeight(lines, font) ==
    IF Len(lines) = 1 THEN TextHeight(lines[1], font)
    ELSE Max(TextHeight(lines[1], font), MaxTextHeight(Tail(lines), font))

\* a variant of the justification test without .lower()
JustifyXNoLower(justification, text_width) ==
    IF justification = <<"c","e","n","t","e","r">>
    THEN (CARD_WIDTH - text_width) \div 2
    ELSE IF justification = <<"r","i","g","h","t">>
         THEN CARD_WIDTH - text_width - MARGIN
         ELSE MARGIN

JustifyX(justification, text_width) ==
    IF Lower(justification) = <<"c","e","n","t","e","r">>
    THEN (CARD_WIDTH - text_width) \div 2
    ELSE IF Lower(justification) = <<"r","i","g","h","t">>
         THEN CARD_WIDTH - text_width - MARGIN
         ELSE MARGIN

\* Vertical positions are kept in hundredths of a pixel: vertical_pos is in
\* hundredths, and max_text_height * 1.1 is 110 hundredths per pixel of
\* height.

\* a variant of y_start without int()
YStartNoInt(feature, n, max_text_height) ==
    feature.vertical_pos * CARD_HEIGHT - (n * max_text_height * 110) \div 2

\* y_start = int(vertical_pos * CARD_HEIGHT - total_text_height / 2)
YStart(feature, n, max_text_height) ==
    100 * TruncDiv(feature.vertical_pos * CARD_HEIGHT
                     - (n * max_text_height * 110) \div 2, 100)

\* the draw.text calls of one feature, in order
DrawLines(feature, k, font, wrapped_lines) ==
    LET max_text_height == MaxTextHeight(wrapped_lines, font)
        y_start == YStart(feature, Len(wrapped_lines), max_text_height)
    IN  [j \in 1..Len(wrapped_lines) |->
            [x |-> JustifyX(feature.justification, TextWidth(wrapped_lines[j], font)),
             y |-> y_start + (j - 1) * max_text_height * 110,
             line |-> wrapped_lines[j],
             font |-> font,
             fill |-> feature.text_color,
             feature |-> k]]

\* one pass of the loop over features: skipped, drawn, or an exception
RenderFeature(card, feature, k) ==
    LET text == CardGet(card, feature.element_name, <<>>)
        font == LoadFont(feature)
        max_width == CARD_WIDTH - 2 * MARGIN
        wrapped_lines == WrapText(text, font, max_width)
    IN  IF text = <<>>
        THEN [fault |-> "none", draws |-> <<>>]
        ELSE IF wrapped_lines = <<>>
             THEN [fault |-> "ValueError_max_empty", draws |-> <<>>]
             ELSE [fault |-> "none", draws |-> DrawLines(feature, k, font, wrapped_lines)]

RECURSIVE RenderLoop(_, _, _, _)
RenderLoop(card, fs, k, draws) ==
    IF k > Len(fs)
    THEN [fault |-> "none", canvas |-> draws]
    ELSE LET r == RenderFeature(card, fs[k], k)
         IN  IF r.fault # "none"
             THEN [fault |-> r.fault, canvas |-> draws]
             ELSE RenderLoop(card, fs, k + 1, draws \o r.draws)

\* create_card_image up to image.save: the exception raised, or the canvas
CreateCardImage(card, fs) == RenderLoop(card, fs, 1, <<>>)

(***************************************************************************)
(* The inputs of the model                                                 *)
(***************************************************************************)
Fields == {"title", "body"}

\* field values: empty, whitespace only, one line, wrapped at a large font
\* size, and a first word wider than the text area at a large font size
TextSet == {<<>>, <<" ">>, <<"a">>, <<"a", " ", "a">>, <<"W", "W", " ", "a">>}

LayoutRow(font, font_size, justification, vertical_pos, element_name) ==
    [font |-> font, font_size |-> font_size, text_color |-> "#000000",
     justification |-> justification, vertical_pos |-> vertical_pos,
     element_name |-> element_name, rotation |-> "0"]

LayoutRowSet ==
    {LayoutRow("arial", <<"6","0","0">>, <<"C","e","n","t","e","r">>, <<"0",".","5">>, "title"),
     LayoutRow("nofont", <<"4","0">>, <<"r","i","g","h","t">>, <<"0",".","2","5">>, "body"),
     LayoutRow("nofont", <<"6","0","0">>, <<"L","e","f","t">>, <<"0",".","3","3">>, "title"),
     LayoutRow("arial", <<"4","o">>, <<"l","e","f","t">>, <<"0",".","5">>, "title"),
     LayoutRow("nofont", <<"6","0","0">>, <<"l","e","f","t">>, <<"m","i","d">>, "title")}

LayoutHeaders ==
    {RequiredColumns, RequiredColumns \ {"font_size"}, RequiredColumns \ {"rotation"}}

CardHeaders == {Fields, {"body"}}
MainTextSet == {<<>>, <<" ">>, <<"a", " ", "a">>}

Feature(font, font_size, justification, vertical_pos, element_name) ==
    [font |-> font, font_size |-> font_size, text_color |-> "#000000",
     justification |-> justification, vertical_pos |-> vertical_pos,
     element_name |-> element_name, rotation |-> "0"]

FeatureSet ==
    {Feature("arial", 600, <<"c","e","n","t","e","r">>, 50, "title"),
     Feature("arial", 600, <<"R","i","g","h","t">>, 33, "title"),
     Feature("nofont", 600, <<"L","E","F","T">>, 25, "body"),
     Feature("arial", 41, <<"j","u","s","t","i","f","y">>, 0, "body"),
     Feature("nofont", 40, <<"C","E","N","T","E","R">>, 100, "title"),
     Feature("arial", 41, <<"r","i","g","h","t">>, 50, "body")}

CardDicts == UNION {[fs -> TextSet] : fs \in SUBSET Fields}

Without(card, f) == [g \in DOMAIN card \ {f} |-> card[g]]
WithEmpty(card, f) == [g \in DOMAIN card \cup {f} |-> IF g = f THEN <<>> ELSE card[g]]

NoOut == [fault |-> "none", canvas |-> <<>>]

MainIdle ==
    /\ layout_header = {} /\ layout_rows = <<>>
    /\ cards_header = {} /\ cards_rows = <<>>
    /\ features = <<>> /\ cards = <<>> /\ i = 0
    /\ image = <<>> /\ files = <<>> /\ fault = "none"
RenderIdle ==
    /\ r_card = <<>> /\ r_features = <<>> /\ r_field = "title"
    /\ r_out = NoOut /\ r_outMissing = NoOut /\ r_outEmpty = NoOut
WrapIdle ==
    /\ w_text = <<>> /\ w_font = [name |-> "default", size |-> DefaultFontSize]
    /\ w_max = 0 /\ w_out = <<>>

(***************************************************************************)
(* main                                                                    *)
(***************************************************************************)
Init ==
    /\ pc = "start"
    /\ layout_header \in LayoutHeaders
    /\ layout_rows \in SeqsUpTo(LayoutRowSet, MaxRows)
    /\ cards_header \in CardHeaders
    /\ cards_rows \in SeqsUpTo([cards_header -> MainTextSet], MaxCards)
    /\ features = <<>> /\ cards = <<>> /\ i = 0
    /\ image = <<>> /\ files = <<>> /\ fault = "none"
    /\ RenderIdle /\ WrapIdle

\* features = read_csv_to_features(...) raises: main ends with the exception
ReadFeaturesRaise ==
    /\ pc = "start"
    /\ ReadFeaturesError(layout_header, layout_rows) # "none"
    /\ pc' = "aborted"
    /\ fault' = ReadFeaturesError(layout_header, layout_rows)
    /\ UNCHANGED <<layout_header, layout_rows, cards_header, cards_rows,
                   features, cards, i, image, files>>
    /\ UNCHANGED <<renderVars, wrapVars>>

ReadFeaturesReturn ==
    /\ pc = "start"
    /\ ReadFeaturesError(layout_header, layout_rows) = "none"
    /\ features' = ReadFeatures(layout_rows)
    /\ pc' = "read_cards"
    /\ UNCHANGED <<layout_header, layout_rows, cards_header, cards_rows,
                   cards, i, image, files, fault>>
    /\ UNCHANGED <<renderVars, wrapVars>>

\* cards = read_csv_to_cards(...), and the loop's enumerate starts
ReadCards ==
    /\ pc = "read_cards"
    /\ cards' = cards_rows
    /\ i' = 0
    /\ pc' = "loop"
    /\ UNCHANGED <<layout_header, layout_rows, cards_header, cards_rows,
                   features, image, files, fault>>
    /\ UNCHANGED <<renderVars, wrapVars>>

\* a variant of output_path numbered from 0
OutputPathZeroBased(k) == k

\* the N of output_path = f"card_{i + 1}.png"
OutputPath(k) == k + 1

\* a variant of the loop that catches the exception and goes on to the next card
CreateCardImageRaiseAndSkip ==
    /\ pc = "loop"
    /\ i < Len(cards)
    /\ CreateCardImage(cards[i + 1], features).fault # "none"
    /\ i' = i + 1
    /\ UNCHANGED <<layout_header, layout_rows, cards_header, cards_rows,
                   pc, features, cards, image, files, fault>>
    /\ UNCHANGED <<renderVars, wrapVars>>

\* create_card_image(card, features, output_path) raises while rendering:
\* nothing catches it, main ends
CreateCardImageRaise ==
    /\ pc = "loop"
    /\ i < Len(cards)
    /\ CreateCardImage(cards[i + 1], features).fault # "none"
    /\ pc' = "aborted"
    /\ fault' = CreateCardImage(cards[i + 1], features).fault
    /\ UNCHANGED <<layout_header, layout_rows, cards_header, cards_rows,
                   features, cards, i, image, files>>
    /\ UNCHANGED <<renderVars, wrapVars>>

\* create_card_image renders every feature onto the canvas
CreateCardImageRender ==
    /\ pc = "loop"
    /\ i < Len(cards)
    /\ CreateCardImage(cards[i + 1], features).fault = "none"
    /\ image' = CreateCardImage(cards[i + 1], features).canvas
    /\ pc' = "save"
    /\ UNCHANGED <<layout_header, layout_rows, cards_header, cards_rows,
                   features, cards, i, files, fault>>
    /\ UNCHANGED <<renderVars, wrapVars>>

\* image.save(output_path, "PNG"), create_card_image returns, next card
SaveImage ==
    /\ pc = "save"
    /\ files' = [n \in DOMAIN files \cup {OutputPath(i)} |->
                    IF n = OutputPath(i) THEN [canvas |-> image, row |-> i]
                    ELSE files[n]]
    /\ image' = <<>>
    /\ i' = i + 1
    /\ pc' = "loop"
    /\ UNCHANGED <<layout_header, layout_rows, cards_header, cards_rows,
                   features, cards, fault>>
    /\ UNCHANGED <<renderVars, wrapVars>>

\* the loop is exhausted, main returns
Finish ==
    /\ pc = "loop"
    /\ i = Len(cards)
    /\ pc' = "done"
    /\ UNCHANGED mainVars
    /\ UNCHANGED <<renderVars, wrapVars>>

Next ==
    \/ ReadFeaturesRaise
    \/ ReadFeaturesReturn
    \/ ReadCards
    \/ CreateCardImageRaise
    \/ CreateCardImageRender
    \/ SaveImage
    \/ Finish

Spec == Init /\ [][Next]_vars

(***************************************************************************)
(* create_card_image on its own: one call on a card, and the calls on the  *)
(* same card with one field removed and with that field empty              *)
(***************************************************************************)
InitRender ==
    /\ pc = "render_call"
    /\ r_features \in SeqsUpTo(FeatureSet, MaxFeatures)
    /\ r_card \in CardDicts
    /\ r_field \in Fields
    /\ r_out = NoOut /\ r_outMissing = NoOut /\ r_outEmpty = NoOut
    /\ MainIdle /\ WrapIdle

Render ==
    /\ pc = "render_call"
    /\ r_out' = CreateCardImage(r_card, r_features)
    /\ r_outMissing' = CreateCardImage(Without(r_card, r_field), r_features)
    /\ r_outEmpty' = CreateCardImage(WithEmpty(r_card, r_field), r_features)
    /\ pc' = "render_done"
    /\ UNCHANGED <<r_card, r_features, r_field>>
    /\ UNCHANGED <<mainVars, wrapVars>>

NextRender == Render

SpecRender == InitRender /\ [][NextRender]_vars

(***************************************************************************)
(* wrap_text on its own                                                    *)
(***************************************************************************)
InitWrap ==
    /\ pc = "wrap_call"
    /\ w_text \in SeqsUpTo(Alphabet, MaxTextLen)
    /\ w_font = [name |-> "default", size |-> DefaultFontSize]
    /\ w_max \in 0..MaxWidth
    /\ w_out = <<>>
    /\ MainIdle /\ RenderIdle

Wrap ==
    /\ pc = "wrap_call"
    /\ w_out' = WrapText(w_text, w_font, w_max)
    /\ pc' = "wrap_done"
    /\ UNCHANGED <<w_text, w_font, w_max>>
    /\ UNCHANGED <<mainVars, renderVars>>

NextWrap == Wrap

SpecWrap == InitWrap /\ [][NextWrap]_vars

(***************************************************************************)
(* Helpers of the properties                                               *)
(***************************************************************************)
DefaultFont == [name |-> "default", size |-> DefaultFontSize]

\* the text with leading and trailing spaces removed and every run of
\* spaces collapsed to one space
RECURSIVE NormalizeLoop(_, _)
NormalizeLoop(s, out) ==
    IF s = <<>>
    THEN IF out # <<>> /\ out[Len(out)] = " " THEN SubSeq(out, 1, Len(out) - 1) ELSE out
    ELSE IF Head(s) = " "
         THEN IF out = <<>> \/ out[Len(out)] = " "
              THEN NormalizeLoop(Tail(s), out)
              ELSE NormalizeLoop(Tail(s), Append(out, " "))
         ELSE NormalizeLoop(Tail(s), Append(out, Head(s)))

NormalizeWs(s) == NormalizeLoop(s, <<>>)

\* the field is present in the card with a non-empty value
HasText(card, name) == name \in DOMAIN card /\ card[name] # <<>>

\* two strings equal up to the case of their letters
EqIgnoreCase(s, t) ==
    /\ Len(s) = Len(t)
    /\ \A k \in 1..Len(s) :
          \/ s[k] = t[k]
          \/ \E m \in 1..26 : {s[k], t[k]} = {UpperCase[m], LowerCase[m]}

\* the draws of feature k on a canvas, in drawing order
IsOfFeature(d, k) == d.feature = k
PlacementDraws(canvas, k) == SelectSeq(canvas, LAMBDA d : IsOfFeature(d, k))

RECURSIVE MaxLineHeight(_)
MaxLineHeight(ds) ==
    IF ds = <<>> THEN 0
    ELSE Max(TextHeight(ds[1].line, ds[1].font), MaxLineHeight(Tail(ds)))

\* vertical_pos * CARD_HEIGHT - (N * H * 1.1) / 2, in hundredths of a pixel
ExactFirstTop(feature, n, h) == feature.vertical_pos * CARD_HEIGHT - n * h * 55

Abs(n) == IF n >= 0 THEN n ELSE -n

(***************************************************************************)
(* C1: joining the lines wrap_text returns with single spaces gives the    *)
(* whitespace-normalized text, for every text and every max_width, also    *)
(* when the first word alone is wider than max_width.                      *)
(***************************************************************************)
C1_JoinedLinesAreNormalizedText ==
    pc = "wrap_done" => Join(w_out) = NormalizeWs(w_text)

(***************************************************************************)
(* C2: when every word of the text fits max_width, every line wrap_text    *)
(* returns fits max_width; and a line wider than max_width is always one   *)
(* single word that alone is wider than max_width.                         *)
(***************************************************************************)
C2_LinesFitMaxWidth ==
    pc = "wrap_done" =>
       /\ (\A k \in 1..Len(Split(w_text)) : TextWidth(Split(w_text)[k], w_font) <= w_max)
            => \A j \in 1..Len(w_out) : TextWidth(w_out[j], w_font) <= w_max
       /\ \A j \in 1..Len(w_out) :
             TextWidth(w_out[j], w_font) > w_max =>
                /\ Len(Split(w_out[j])) = 1
                /\ w_out[j] = Split(w_out[j])[1]

C2_Witness ==
    /\ pc = "wrap_done"
    /\ \A k \in 1..Len(Split(w_text)) : TextWidth(Split(w_text)[k], w_font) <= w_max
    /\ Len(w_out) >= 2
    /\ \E j \in 1..Len(w_out) : Len(Split(w_out[j])) >= 2
    /\ TextWidth(NormalizeWs(w_text), w_font) > w_max

(***************************************************************************)
(* C3: main processes the cards in row order: the card of 0-based row i is *)
(* saved as card_<i+1>.png, every earlier card's file is written before    *)
(* the rendering of the next card begins, and a run that ends without      *)
(* failure has written exactly card_1.png .. card_<n>.png.                 *)
(***************************************************************************)
C3_RowOrderAndNumbering ==
    /\ \A n \in DOMAIN files :
          /\ files[n].row = n - 1
          /\ n \in 1..Len(cards_rows)
          /\ files[n].canvas = CreateCardImage(cards_rows[n], features).canvas
    /\ pc \in {"loop", "save"} => DOMAIN files = 1..i
    /\ pc = "done" => DOMAIN files = 1..Len(cards_rows)

C3_Witness ==
    /\ pc = "done"
    /\ Len(cards_rows) = 2
    /\ DOMAIN files = {1, 2}
    /\ files[1].canvas # files[2].canvas
    /\ files[1].canvas # <<>>

(***************************************************************************)
(* C4: a layout file that lacks a required column, or that holds a         *)
(* non-numeric font_size or vertical_pos on some row, aborts the run       *)
(* before any rendering: no card_<N>.png is written.                       *)
(***************************************************************************)
LayoutInvalid ==
    \/ RequiredColumns \ layout_header # {}
    \/ \E k \in 1..Len(layout_rows) :
          \/ ~IntParses(layout_rows[k].font_size)
          \/ ~FloatParses(layout_rows[k].vertical_pos)

C4_InvalidLayoutAbortsBeforeRendering ==
    LayoutInvalid => DOMAIN files = {}

(***************************************************************************)
(* C5: a failure while rendering card k ends main at card k: no file is    *)
(* written for card k or any later card, and the files of the cards        *)
(* 1..k-1 stay as they were written.                                       *)
(***************************************************************************)
RenderFails(n) == CreateCardImage(cards[n], features).fault # "none"

C5_RenderFailureIsFatal ==
    /\ \A n \in DOMAIN files : \A m \in 1..n : ~RenderFails(m)
    /\ (pc = "aborted" /\ fault = "ValueError_max_empty") =>
          /\ RenderFails(i + 1)
          /\ DOMAIN files = 1..i
          /\ \A n \in 1..i :
                files[n] = [canvas |-> CreateCardImage(cards[n], features).canvas,
                            row |-> n - 1]
          /\ ~ENABLED Next

C5_Witness ==
    /\ pc = "aborted"
    /\ fault = "ValueError_max_empty"
    /\ i = 1
    /\ Len(cards) = 2
    /\ DOMAIN files = {1}
    /\ files[1].canvas # <<>>
    /\ ~RenderFails(1)
    /\ RenderFails(2)

(***************************************************************************)
(* C6: a feature whose field is absent from the card and one whose field   *)
(* is the empty string are both skipped, without error and without a       *)
(* draw: the canvas is the same in both cases, the other features are      *)
(* rendered the same.                                                      *)
(***************************************************************************)
C6_MissingFieldSameAsEmpty ==
    pc = "render_done" =>
       /\ r_outMissing = r_outEmpty
       /\ \A j \in 1..Len(r_outEmpty.canvas) :
             r_features[r_outEmpty.canvas[j].feature].element_name # r_field
       /\ \A j \in 1..Len(r_outMissing.canvas) :
             r_features[r_outMissing.canvas[j].feature].element_name # r_field

C6_Witness ==
    /\ pc = "render_done"
    /\ Len(r_features) = 2
    /\ r_features[1].element_name = r_field
    /\ r_features[2].element_name # r_field
    /\ HasText(r_card, r_field)
    /\ r_out.fault = "none"
    /\ r_outEmpty.fault = "none"
    /\ r_outEmpty.canvas # <<>>
    /\ r_out.canvas # r_outEmpty.canvas

(***************************************************************************)
(* C7: a font that cannot be opened never aborts the run: for every        *)
(* feature with non-empty text whose font is missing, the default font is  *)
(* used, the feature is drawn with it and the card's file is written.      *)
(***************************************************************************)
Processed(n) ==
    \/ n <= i
    \/ n = i + 1 /\ pc = "aborted"

C7_MissingFontStillDrawnAndSaved ==
    \A n \in 1..Len(cards) : \A k \in 1..Len(features) :
       (/\ Processed(n)
        /\ features[k].font \notin InstalledFonts
        /\ HasText(cards[n], features[k].element_name))
       => /\ n \in DOMAIN files
          /\ \E j \in 1..Len(files[n].canvas) :
                /\ files[n].canvas[j].feature = k
                /\ files[n].canvas[j].font = DefaultFont

(***************************************************************************)
(* C8: the x of every drawn line is decided by its own width W and the     *)
(* justification, compared without regard to case: MARGIN for left,        *)
(* CARD_WIDTH - W - MARGIN for right, (CARD_WIDTH - W) / 2 (in whole       *)
(* pixels) for center, MARGIN for any other value.                         *)
(***************************************************************************)
ExpectedX(justification, w) ==
    CASE EqIgnoreCase(justification, <<"l","e","f","t">>) -> MARGIN
      [] EqIgnoreCase(justification, <<"r","i","g","h","t">>) -> CARD_WIDTH - w - MARGIN
      [] EqIgnoreCase(justification, <<"c","e","n","t","e","r">>) -> (CARD_WIDTH - w) \div 2
      [] OTHER -> MARGIN

C9_ExactBlockCentering ==
    pc = "render_done" =>
       \A k \in 1..Len(r_features) :
          LET ds == PlacementDraws(r_out.canvas, k)
              h == MaxLineHeight(ds)
          IN  ds # <<>> =>
                 /\ ds[1].y = ExactFirstTop(r_features[k], Len(ds), h)
                 /\ \A j \in 2..Len(ds) : ds[j].y = ds[j - 1].y + 110 * h

(***************************************************************************)
(* C9 as amended: the first line's top is                                  *)
(* vertical_pos*CARD_HEIGHT - (N*H*1.1)/2 truncated toward zero to a whole *)
(* pixel; each following line's top is the previous one plus H*1.1, so the *)
(* last is the first plus (N-1)*H*1.1; the block's centre is less than one *)
(* pixel away from vertical_pos*CARD_HEIGHT.                               *)
(***************************************************************************)
C9_TruncatedBlockCentering ==
    pc = "render_done" =>
       \A k \in 1..Len(r_features) :
          LET ds == PlacementDraws(r_out.canvas, k)
              h == MaxLineHeight(ds)
              n == Len(ds)
              exact == ExactFirstTop(r_features[k], n, h)
          IN  ds # <<>> =>
                 /\ ds[1].y % 100 = 0
                 /\ Abs(ds[1].y) <= Abs(exact)
                 /\ Abs(exact) - Abs(ds[1].y) < 100
                 /\ (exact >= 0) = (ds[1].y >= 0) \/ ds[1].y = 0
                 /\ \A j \in 2..n : ds[j].y = ds[j - 1].y + 110 * h
                 /\ ds[n].y = ds[1].y + (n - 1) * 110 * h
                 /\ Abs((ds[1].y + n * h * 55)
                          - r_features[k].vertical_pos * CARD_HEIGHT) < 100

C9_Witness ==
    /\ pc = "render_done"
    /\ \E k \in 1..Len(r_features) :
          LET ds == PlacementDraws(r_out.canvas, k)
              h == MaxLineHeight(ds)
          IN  /\ Len(ds) >= 2
              /\ h > 0
              /\ ds[1].y # ExactFirstTop(r_features[k], Len(ds), h)
              /\ ds[1].y > 0
    /\ \E k \in 1..Len(r_features) :
          LET ds == PlacementDraws(r_out.canvas, k)
          IN  ds # <<>> /\ ds[1].y < 0

(***************************************************************************)
(* C10: every field value that passes the empty-value skip (any non-empty  *)
(* string, also one of whitespace only) is wrapped into at least one line, *)
(* so the maximum line height is never taken over an empty list.           *)
(***************************************************************************)
C10_WrappedLinesNeverEmpty ==
    /\ fault # "ValueError_max_empty"
    /\ \A n \in 1..Len(cards) : \A k \in 1..Len(features) :
          HasText(cards[n], features[k].element_name) =>
             WrapText(cards[n][features[k].element_name], LoadFont(features[k]),
                      CARD_WIDTH - 2 * MARGIN) # <<>>

====
